---------------------------- MODULE Spec2Model ----------------------------
(***************************************************************************)
(* supports-color (src/index.js): the colour level resolver, its three     *)
(* module-level caches (flagCache, flagForceColor/cachedArgv,              *)
(* windowsVersionCache) and the two lazily memoized default results        *)
(* (stdoutCache, stderrCache).                                             *)
(*                                                                         *)
(* JavaScript values are represented as follows.                           *)
(*   string                 a TLA+ string (TLC evaluates Len, \o, SubSeq)  *)
(*   number                 <<n>>, and NaN is <<>>, where the code parses  *)
(*                          text; a plain integer for a colour level       *)
(*   undefined (a level)    the definition  undefined                      *)
(*   null, false            the records  null  and  false; nullRef for    *)
(*                          the null of cachedArgv                         *)
(*   object                 a record                                       *)
(*   process.env            a function whose DOMAIN is the set of the      *)
(*                          variables that are present                     *)
(*   process.argv           argv, the tokens, and argvRef, the identity of *)
(*                          the array object that holds them               *)
(* globalThis.Deno is taken to be absent (Node.js).                        *)
(***************************************************************************)
EXTENDS Integers, Sequences, FiniteSets, TLC

\* The longest process.argv drawn.
MaxArgv == 2

\* The most argv snapshots (the argv.join(':') of a cache key) flagCache
\* holds entries of before a caller clears it.
MaxSnapshots == 1

VARIABLES
    argv,                \* contents of process.argv
    argvRef,             \* identity of the array object process.argv refers to
    env,                 \* process.env
    platform,            \* process.platform
    osRelease,           \* what os.release() returns
    isatty,              \* tty.isatty(fd) for fd 1 and 2
    flagCache,           \* index.js:11
    flagForceColor,      \* index.js:34
    cachedArgv,          \* index.js:35 (an array identity, or null)
    windowsVersionCache, \* index.js:107
    stdoutCache,         \* index.js:278
    stderrCache,         \* index.js:279
    ret                  \* the last operation and what it returned

vars == <<argv, argvRef, env, platform, osRelease, isatty, flagCache,
          flagForceColor, cachedArgv, windowsVersionCache, stdoutCache,
          stderrCache, ret>>

-----------------------------------------------------------------------------
(* JavaScript values *)

undefined == -1
null == [null |-> TRUE]
nullRef == 0
false == [false |-> TRUE]
NaN == <<>>

-----------------------------------------------------------------------------
(* Strings *)

CharAt(s, i) == SubSeq(s, i, i)

StartsWith(s, p) == Len(s) >= Len(p) /\ SubSeq(s, 1, Len(p)) = p

EndsWith(s, p) == Len(s) >= Len(p) /\ SubSeq(s, Len(s) - Len(p) + 1, Len(s)) = p

Contains(s, p) ==
    \E i \in 1..(Len(s) - Len(p) + 1) : SubSeq(s, i, i + Len(p) - 1) = p

Digits == <<"0", "1", "2", "3", "4", "5", "6", "7", "8", "9">>

IsDigit(c) == \E d \in 1..10 : Digits[d] = c

DigitValue(c) == (CHOOSE d \in 1..10 : Digits[d] = c) - 1

UpperCase == "ABCDEFGHIJKLMNOPQRSTUVWXYZ"
LowerCase == "abcdefghijklmnopqrstuvwxyz"

ToLowerChar(c) ==
    IF \E i \in 1..26 : CharAt(UpperCase, i) = c
    THEN CharAt(LowerCase, CHOOSE i \in 1..26 : CharAt(UpperCase, i) = c)
    ELSE c

RECURSIVE ToLower(_)
ToLower(s) == IF s = "" THEN "" ELSE ToLowerChar(CharAt(s, 1)) \o ToLower(Tail(s))

WhiteSpace == {" ", "\t", "\n", "\r"}

\* The position of the first character of s at or after i that is not a
\* digit, Len(s) + 1 when there is none.
RECURSIVE DigitsEnd(_, _)
DigitsEnd(s, i) ==
    IF i <= Len(s) /\ IsDigit(CharAt(s, i)) THEN DigitsEnd(s, i + 1) ELSE i

RECURSIVE SkipWhiteSpace(_, _)
SkipWhiteSpace(s, i) ==
    IF i <= Len(s) /\ CharAt(s, i) \in WhiteSpace THEN SkipWhiteSpace(s, i + 1) ELSE i

\* The value of the decimal digits s[i..j-1].
RECURSIVE DecimalValue(_, _, _)
DecimalValue(s, i, j) ==
    IF j <= i THEN 0
    ELSE 10 * DecimalValue(s, i, j - 1) + DigitValue(CharAt(s, j - 1))

\* Number.parseInt(s, 10): leading white space, an optional sign, then the
\* longest run of decimal digits; NaN when that run is empty.
ParseInt(s) ==
    LET i == SkipWhiteSpace(s, 1)
        neg == i <= Len(s) /\ CharAt(s, i) = "-"
        j == IF i <= Len(s) /\ CharAt(s, i) \in {"+", "-"} THEN i + 1 ELSE i
        k == DigitsEnd(s, j)
        v == DecimalValue(s, j, k)
    IN  IF k = j THEN NaN ELSE <<IF neg THEN 0 - v ELSE v>>

\* Number(s) of a string of decimal digits, signs and letters: the empty
\* string is 0, an optionally signed run of digits is its value, anything
\* else NaN.  (The hexadecimal, exponent and Infinity literals Number also
\* reads are not among the inputs drawn here.)
ToNumber(s) ==
    LET i == SkipWhiteSpace(s, 1)
        neg == i <= Len(s) /\ CharAt(s, i) = "-"
        j == IF i <= Len(s) /\ CharAt(s, i) \in {"+", "-"} THEN i + 1 ELSE i
        k == DigitsEnd(s, j)
        e == SkipWhiteSpace(s, k)
        v == DecimalValue(s, j, k)
    IN  IF i > Len(s) THEN <<0>>
        ELSE IF k = j \/ e <= Len(s) THEN NaN
        ELSE <<IF neg THEN 0 - v ELSE v>>

\* Math.min(a, b): NaN when either is NaN.
MathMin(a, b) ==
    IF a = NaN \/ b = NaN THEN NaN ELSE <<IF a[1] <= b[1] THEN a[1] ELSE b[1]>>

\* a >= n for a number a that may be NaN: every comparison with NaN is false.
GreaterOrEqual(a, n) == a # NaN /\ a[1] >= n

\* s.split('.')
RECURSIVE Split(_)
Split(s) ==
    IF \E i \in 1..Len(s) : CharAt(s, i) = "."
    THEN LET i == CHOOSE i \in 1..Len(s) :
                    /\ CharAt(s, i) = "."
                    /\ \A j \in 1..(i - 1) : CharAt(s, j) # "."
         IN  <<SubSeq(s, 1, i - 1)>> \o Split(SubSeq(s, i + 1, Len(s)))
    ELSE <<s>>

\* Number(array[i]) (0-based): array[i] is undefined past the end, and
\* Number(undefined) is NaN.
NumberAt(a, i) == IF i + 1 <= Len(a) THEN ToNumber(a[i + 1]) ELSE NaN

\* array.join(':')
RECURSIVE Join(_)
Join(a) ==
    IF a = <<>> THEN ""
    ELSE IF Len(a) = 1 THEN a[1]
    ELSE a[1] \o ":" \o Join(Tail(a))

\* array.indexOf(x), 0-based, -1 when absent.
IndexOf(a, x) ==
    IF \E i \in 1..Len(a) : a[i] = x
    THEN (CHOOSE i \in 1..Len(a) : a[i] = x /\ \A j \in 1..(i - 1) : a[j] # x) - 1
    ELSE -1

-----------------------------------------------------------------------------
(* Regular expressions, index.js:6-8 *)

\* /-256(color)?$/i
TERM_256_REGEX(s) ==
    LET l == ToLower(s) IN EndsWith(l, "-256") \/ EndsWith(l, "-256color")

\* /^screen|^xterm|^vt100|^vt220|^rxvt|color|ansi|cygwin|linux/i
TERM_BASIC_REGEX(s) ==
    LET l == ToLower(s)
    IN  \/ \E p \in {"screen", "xterm", "vt100", "vt220", "rxvt"} : StartsWith(l, p)
        \/ \E p \in {"color", "ansi", "cygwin", "linux"} : Contains(l, p)

\* /^(9\.(0*[1-9]\d*)\.|\d{2,}\.)/ : "9." then a run of digits that holds a
\* digit other than 0, then "."; or a run of two or more digits, then ".".
TEAMCITY_VERSION_REGEX(s) ==
    \/ /\ StartsWith(s, "9.")
       /\ LET k == DigitsEnd(s, 3)
          IN  /\ \E i \in 3..(k - 1) : CharAt(s, i) # "0"
              /\ k <= Len(s)
              /\ CharAt(s, k) = "."
    \/ LET k == DigitsEnd(s, 1)
       IN  k >= 3 /\ k <= Len(s) /\ CharAt(s, k) = "."

\* regex.test(env[name]): an absent variable is undefined, which test()
\* converts to the string "undefined".
TestInput(e, name) == IF name \in DOMAIN e THEN e[name] ELSE "undefined"

\* env[name] === value
EnvIs(e, name, value) == name \in DOMAIN e /\ e[name] = value

-----------------------------------------------------------------------------
(* The caches and what they are computed from, as one record s with the    *)
(* fields argv, argvRef, env, platform, osRelease, flagCache,              *)
(* flagForceColor, cachedArgv and windowsVersionCache.  A function of      *)
(* index.js that reads or writes a cache is an operator from s to          *)
(* [ret |-> what it returns, s |-> s afterwards].                          *)

EmptyMap == [k \in {} |-> FALSE]

\* The flags index.js looks up (index.js:47-57, 183-187).
Flags ==
    {"no-color", "no-colors", "color=false", "color=never",
     "color", "colors", "color=true", "color=always",
     "color=16m", "color=full", "color=truecolor", "color=256"}

\* The argv snapshot of a cache key `${flag}:${argv.join(':')}`: what
\* follows the flag and its ":".
SnapshotOf(cacheKey) ==
    LET flag == CHOOSE f \in Flags : StartsWith(cacheKey, f \o ":")
    IN  SubSeq(cacheKey, Len(flag) + 2, Len(cacheKey))

\* flagCache fc holds entries of at most MaxSnapshots argv snapshots.
WithinBound(fc) == Cardinality({SnapshotOf(k) : k \in DOMAIN fc}) <= MaxSnapshots

\* index.js:15-29
hasFlag(flag, s) ==
    LET cacheKey == flag \o ":" \o Join(s.argv)
    IN  IF cacheKey \in DOMAIN s.flagCache
        THEN [ret |-> s.flagCache[cacheKey], s |-> s]
        ELSE LET prefix == IF StartsWith(flag, "-") THEN ""
                           ELSE IF Len(flag) = 1 THEN "-" ELSE "--"
                 position == IndexOf(s.argv, prefix \o flag)
                 terminatorPosition == IndexOf(s.argv, "--")
                 result == /\ position # -1
                           /\ (terminatorPosition = -1 \/ position < terminatorPosition)
             IN  [ret |-> result,
                  s |-> [s EXCEPT !.flagCache = (cacheKey :> result) @@ @]]

\* The one element of a set of one element.  Only({e(x) : x \in {v}}) is
\* LET x == v IN e(x), with v computed once.
Only(S) == CHOOSE x \in S : TRUE

\* hasFlag(flags[1]) || hasFlag(flags[2]) || ... : the calls stop at the
\* first flag found.
RECURSIVE hasSomeFlag(_, _)
hasSomeFlag(flags, s) ==
    IF flags = <<>> THEN [ret |-> FALSE, s |-> s]
    ELSE Only({IF h.ret THEN h ELSE hasSomeFlag(Tail(flags), h.s) :
               h \in {hasFlag(Head(flags), s)}})

\* index.js:37-65
getFlagForceColor(s) ==
    LET currentArgv == s.argvRef
    IN  IF s.cachedArgv = currentArgv /\ s.flagForceColor # undefined
        THEN [ret |-> s.flagForceColor, s |-> s]
        ELSE Only({
            IF off.ret
            THEN [ret |-> 0, s |-> [off.s EXCEPT !.flagForceColor = 0]]
            ELSE Only({
                IF on.ret
                THEN [ret |-> 1, s |-> [on.s EXCEPT !.flagForceColor = 1]]
                ELSE [ret |-> undefined, s |-> [on.s EXCEPT !.flagForceColor = undefined]] :
                on \in {hasSomeFlag(<<"color", "colors", "color=true", "color=always">>,
                                    off.s)}}) :
            off \in {hasSomeFlag(<<"no-color", "no-colors", "color=false", "color=never">>,
                                 [s EXCEPT !.cachedArgv = currentArgv])}})

\* envForceColor without the cap of line 84: a parsed value above 3 is
\* no level.
envForceColor_Uncapped(e) ==
    IF "FORCE_COLOR" \notin DOMAIN e THEN undefined
    ELSE IF e["FORCE_COLOR"] = "true" THEN 1
    ELSE IF e["FORCE_COLOR"] = "false" THEN 0
    ELSE IF Len(e["FORCE_COLOR"]) = 0 THEN 1
    ELSE LET level == ParseInt(e["FORCE_COLOR"])
         IN  IF ~(level # NaN /\ level[1] \in {0, 1, 2, 3}) THEN undefined
             ELSE level[1]

\* index.js:67-91
envForceColor(e) ==
    IF "FORCE_COLOR" \notin DOMAIN e THEN undefined
    ELSE IF e["FORCE_COLOR"] = "true" THEN 1
    ELSE IF e["FORCE_COLOR"] = "false" THEN 0
    ELSE IF Len(e["FORCE_COLOR"]) = 0 THEN 1
    ELSE LET level == MathMin(ParseInt(e["FORCE_COLOR"]), <<3>>)
         IN  IF ~(level # NaN /\ level[1] \in {0, 1, 2, 3}) THEN undefined
             ELSE level[1]

\* index.js:93-104
translateLevel(level) ==
    IF level = 0 THEN false
    ELSE [level |-> level, hasBasic |-> TRUE, has256 |-> level >= 2, has16m |-> level >= 3]

\* index.js:109-122
getWindowsVersion(s) ==
    IF s.windowsVersionCache # null
    THEN [ret |-> s.windowsVersionCache, s |-> s]
    ELSE LET release == Split(s.osRelease)
             version == [major |-> NumberAt(release, 0),
                         minor |-> NumberAt(release, 1),
                         build |-> NumberAt(release, 2)]
         IN  [ret |-> version, s |-> [s EXCEPT !.windowsVersionCache = version]]

\* index.js:125-162
checkTerminalColorSupport(e) ==
    IF EnvIs(e, "COLORTERM", "truecolor") THEN 3
    ELSE IF \E t \in {"xterm-kitty", "xterm-ghostty", "wezterm"} : EnvIs(e, "TERM", t) THEN 3
    ELSE LET version == ParseInt(Split(IF "TERM_PROGRAM_VERSION" \in DOMAIN e
                                             /\ e["TERM_PROGRAM_VERSION"] # ""
                                       THEN e["TERM_PROGRAM_VERSION"] ELSE "")[1])
         IN  IF EnvIs(e, "TERM_PROGRAM", "iTerm.app")
             THEN (IF GreaterOrEqual(version, 3) THEN 3 ELSE 2)
             ELSE IF EnvIs(e, "TERM_PROGRAM", "Apple_Terminal") THEN 2
             ELSE IF TERM_256_REGEX(TestInput(e, "TERM")) THEN 2
             ELSE IF TERM_BASIC_REGEX(TestInput(e, "TERM")) THEN 1
             ELSE IF "COLORTERM" \in DOMAIN e THEN 1
             ELSE 0

\* index.js:165-175
checkCIColorSupport(e, min) ==
    IF \E key \in {"GITHUB_ACTIONS", "GITEA_ACTIONS", "CIRCLECI"} : key \in DOMAIN e THEN 3
    ELSE IF \/ \E sign \in {"TRAVIS", "APPVEYOR", "GITLAB_CI", "BUILDKITE", "DRONE"} :
                    sign \in DOMAIN e
            \/ EnvIs(e, "CI_NAME", "codeship")
    THEN 1
    ELSE min

\* index.js:178-192
checkFlagColorLevel(sniffFlags, s) ==
    IF ~sniffFlags THEN [ret |-> 0, s |-> s]
    ELSE Only({
        IF full.ret THEN [ret |-> 3, s |-> full.s]
        ELSE Only({[ret |-> IF c256.ret THEN 2 ELSE 0, s |-> c256.s] :
                   c256 \in {hasFlag("color=256", full.s)}}) :
        full \in {hasSomeFlag(<<"color=16m", "color=full", "color=truecolor">>, s)}})

\* forceColorOf using the flags' forced level whatever sniffFlags is.
forceColorOf_AlwaysSniffing(sniffFlags, noFlagForceColor, flagForce) ==
    IF noFlagForceColor # undefined THEN noFlagForceColor ELSE flagForce

\* const forceColor = sniffFlags ? localFlagForceColor : noFlagForceColor
\* (index.js:195-202)
forceColorOf(sniffFlags, noFlagForceColor, flagForce) ==
    LET localFlagForceColor ==
            IF noFlagForceColor # undefined THEN noFlagForceColor ELSE flagForce
    IN  IF sniffFlags THEN localFlagForceColor ELSE noFlagForceColor

\* index.js:229-241
windowsLevel(windowsVersion) ==
    IF /\ GreaterOrEqual(windowsVersion.major, 10)
       /\ GreaterOrEqual(windowsVersion.build, 10586)
    THEN (IF GreaterOrEqual(windowsVersion.build, 14931) THEN 3 ELSE 2)
    ELSE 1

\* index.js:243-257
detectedLevel(e, min) ==
    IF "CI" \in DOMAIN e THEN checkCIColorSupport(e, min)
    ELSE IF "TEAMCITY_VERSION" \in DOMAIN e
    THEN (IF TEAMCITY_VERSION_REGEX(e["TEAMCITY_VERSION"]) THEN 1 ELSE 0)
    ELSE LET terminalLevel == checkTerminalColorSupport(e)
         IN  IF terminalLevel > 0 THEN terminalLevel ELSE min

\* index.js:208-258: the rest of _supportsColor once forceColor is known
\* not to be 0; flagLevel is what checkFlagColorLevel returned.
levelFrom(haveStream, streamIsTTY, forceColor, flagLevel) ==
    LET e == flagLevel.s.env
        min == IF forceColor = undefined THEN 0 ELSE forceColor
    IN  IF flagLevel.ret > 0 THEN flagLevel
        ELSE IF "TF_BUILD" \in DOMAIN e /\ "AGENT_NAME" \in DOMAIN e
        THEN [ret |-> 1, s |-> flagLevel.s]
        ELSE IF haveStream /\ ~streamIsTTY /\ forceColor = undefined
        THEN [ret |-> 0, s |-> flagLevel.s]
        ELSE IF EnvIs(e, "TERM", "dumb") THEN [ret |-> min, s |-> flagLevel.s]
        ELSE IF flagLevel.s.platform = "win32"
        THEN Only({[ret |-> windowsLevel(win.ret), s |-> win.s] :
                   win \in {getWindowsVersion(flagLevel.s)}})
        ELSE [ret |-> detectedLevel(e, min), s |-> flagLevel.s]

\* index.js:194-258
_supportsColor(haveStream, streamIsTTY, sniffFlags, s) ==
    Only({
        LET forceColor == forceColorOf(sniffFlags, envForceColor(s.env), flag.ret)
        IN  IF forceColor = 0 THEN [ret |-> 0, s |-> flag.s]
            ELSE Only({levelFrom(haveStream, streamIsTTY, forceColor, flagLevel) :
                       flagLevel \in {checkFlagColorLevel(sniffFlags, flag.s)}}) :
        flag \in {getFlagForceColor(s)}})

\* The streams a caller passes: none, or an object whose isTTY is a boolean.
noStream == [undefined |-> TRUE]

\* options.sniffFlags, true unless the options give it (index.js:194)
sniffFlagsOf(options) ==
    IF "sniffFlags" \in DOMAIN options THEN options.sniffFlags ELSE TRUE

\* index.js:260-267
createSupportsColor(stream, options, s) ==
    Only({[ret |-> translateLevel(level.ret), s |-> level.s] :
          level \in {_supportsColor(stream # noStream,
                                    stream # noStream /\ stream.isTTY,
                                    sniffFlagsOf(options), s)}})

\* index.js:270-275
clearCacheOf(s) ==
    [s EXCEPT !.flagCache = EmptyMap,
              !.windowsVersionCache = null,
              !.cachedArgv = nullRef,
              !.flagForceColor = undefined]

-----------------------------------------------------------------------------
(* The state machine *)

State ==
    [argv |-> argv, argvRef |-> argvRef, env |-> env, platform |-> platform,
     osRelease |-> osRelease, flagCache |-> flagCache,
     flagForceColor |-> flagForceColor, cachedArgv |-> cachedArgv,
     windowsVersionCache |-> windowsVersionCache]

\* The caches after a call that left them as in s.
SetCaches(s) ==
    /\ flagCache' = s.flagCache
    /\ flagForceColor' = s.flagForceColor
    /\ cachedArgv' = s.cachedArgv
    /\ windowsVersionCache' = s.windowsVersionCache

inputs == <<argv, argvRef, env, platform, osRelease, isatty>>
caches == <<flagCache, flagForceColor, cachedArgv, windowsVersionCache>>
defaults == <<stdoutCache, stderrCache>>

Streams == {noStream, [isTTY |-> TRUE], [isTTY |-> FALSE]}
NoOptions == [k \in {} |-> FALSE]
Options == {NoOptions, [sniffFlags |-> FALSE]}

\* A caller calls createSupportsColor(stream, options), unless the call
\* would grow flagCache beyond MaxSnapshots argv snapshots (the caller
\* calls clearCache() first then).
CreateSupportsColor(streams, optionses) ==
    \E stream \in streams, options \in optionses :
        \E r \in {createSupportsColor(stream, options, State)} :
            /\ WithinBound(r.s.flagCache)
            /\ SetCaches(r.s)
            /\ ret' = [op |-> "createSupportsColor", stream |-> stream,
                       options |-> options, value |-> r.ret]
            /\ UNCHANGED <<inputs, defaults>>

\* A caller calls clearCache().
ClearCache ==
    /\ SetCaches(clearCacheOf(State))
    /\ ret' = [op |-> "clearCache"]
    /\ UNCHANGED <<inputs, defaults>>

\* defaultGetter testing the cache for truthiness (!cache) instead of
\* comparing it with null: a memoized false is computed again.
defaultGetter_Truthiness(cache, fd, s) ==
    IF cache = null \/ cache = false
    THEN createSupportsColor([isTTY |-> isatty[fd]], NoOptions, s)
    ELSE [ret |-> cache, s |-> s]

\* The getter of a default result (index.js:282-288, 290-296): cache is
\* stdoutCache or stderrCache and fd the descriptor.  What it returns is
\* the cache afterwards.
defaultGetter(cache, fd, s) ==
    IF cache = null
    THEN createSupportsColor([isTTY |-> isatty[fd]], NoOptions, s)
    ELSE [ret |-> cache, s |-> s]

\* A caller reads supportsColor.stdout.
GetStdout ==
    \E r \in {defaultGetter(stdoutCache, 1, State)} :
        /\ WithinBound(r.s.flagCache)
        /\ stdoutCache' = r.ret
        /\ SetCaches(r.s)
        /\ ret' = [op |-> "stdout", value |-> r.ret]
        /\ UNCHANGED <<inputs, stderrCache>>

\* A caller reads supportsColor.stderr.
GetStderr ==
    \E r \in {defaultGetter(stderrCache, 2, State)} :
        /\ WithinBound(r.s.flagCache)
        /\ stderrCache' = r.ret
        /\ SetCaches(r.s)
        /\ ret' = [op |-> "stderr", value |-> r.ret]
        /\ UNCHANGED <<inputs, stdoutCache>>

\* The identity of an array object that is neither process.argv nor the
\* one cachedArgv holds.
NewRef == CHOOSE r \in 1..3 : r # argvRef /\ r # cachedArgv

\* All the token lists of at most MaxArgv tokens.
ArgvOf(tokens) == UNION {[1..n -> tokens] : n \in 0..MaxArgv}

\* process.argv = a, for a new array object a among contents.
ReplaceArgv(contents) ==
    \E a \in contents :
        /\ argv' = a
        /\ argvRef' = NewRef
        /\ ret' = [op |-> "argv"]
        /\ UNCHANGED <<env, platform, osRelease, isatty, caches, defaults>>

\* process.argv.push(token): the same array object.
PushArgv(tokens) ==
    \E t \in tokens :
        /\ Len(argv) < MaxArgv
        /\ argv' = Append(argv, t)
        /\ ret' = [op |-> "argv"]
        /\ UNCHANGED <<argvRef, env, platform, osRelease, isatty, caches, defaults>>

\* process.argv.pop(): the same array object.
PopArgv ==
    /\ argv # <<>>
    /\ argv' = SubSeq(argv, 1, Len(argv) - 1)
    /\ ret' = [op |-> "argv"]
    /\ UNCHANGED <<argvRef, env, platform, osRelease, isatty, caches, defaults>>

\* process.env[name] = value, for a <<name, value>> of settings.
SetEnv(settings) ==
    \E kv \in settings :
        /\ env' = (kv[1] :> kv[2]) @@ env
        /\ ret' = [op |-> "env"]
        /\ UNCHANGED <<argv, argvRef, platform, osRelease, isatty, caches, defaults>>

\* delete process.env[name]
DeleteEnv ==
    \E name \in DOMAIN env :
        /\ env' = [k \in DOMAIN env \ {name} |-> env[k]]
        /\ ret' = [op |-> "env"]
        /\ UNCHANGED <<argv, argvRef, platform, osRelease, isatty, caches, defaults>>

\* os.release() starts to return another version (a test replaces it).
SetOsRelease(releases) ==
    \E r \in releases :
        /\ r # osRelease
        /\ osRelease' = r
        /\ ret' = [op |-> "release"]
        /\ UNCHANGED <<argv, argvRef, env, platform, isatty, caches, defaults>>

\* The module as loaded (index.js:11, 34-35, 107, 278-279), in a process
\* whose argv is empty.
Loaded(envs, platforms, releases, ttys) ==
    /\ argv = <<>>
    /\ argvRef = 1
    /\ env \in envs
    /\ platform \in platforms
    /\ osRelease \in releases
    /\ isatty \in ttys
    /\ flagCache = EmptyMap
    /\ flagForceColor = undefined
    /\ cachedArgv = nullRef
    /\ windowsVersionCache = null
    /\ stdoutCache = null
    /\ stderrCache = null
    /\ ret = [op |-> "load"]

-----------------------------------------------------------------------------
(* Specifications.  Each draws the inputs of one concern from sets wide    *)
(* enough for it and keeps the others fixed.                               *)

TTY == [isTTY |-> TRUE]
NotTTY == [isTTY |-> FALSE]
NoSniff == [sniffFlags |-> FALSE]

\* The default results and all that can happen between two reads of them:
\* stdout is a terminal and stderr is not.
DefaultTokens == {"--color"}
DefaultEnv == {<<"FORCE_COLOR", "0">>, <<"COLORTERM", "truecolor">>}

Init == Loaded({EmptyMap}, {"linux"}, {"10.0.14931"}, {[fd \in {1, 2} |-> fd = 1]})

Next ==
    \/ GetStdout
    \/ GetStderr
    \/ CreateSupportsColor({TTY}, {NoOptions})
    \/ ClearCache
    \/ ReplaceArgv({<<>>})
    \/ PushArgv(DefaultTokens)
    \/ PopArgv
    \/ SetEnv(DefaultEnv)
    \/ DeleteEnv

Spec == Init /\ [][Next]_vars

\* The flags of argv, replaced or changed in place, in an empty environment.
ArgvTokens == {"--color", "--no-color", "--color=256", "--"}

InitArgv == Loaded({EmptyMap}, {"linux"}, {"10.0.14931"}, {[fd \in {1, 2} |-> TRUE]})

NextArgv ==
    \/ CreateSupportsColor({TTY, NotTTY}, Options)
    \/ ClearCache
    \/ ReplaceArgv({<<>>})
    \/ PushArgv(ArgvTokens)
    \/ PopArgv

SpecArgv == InitArgv /\ [][NextArgv]_vars

\* argv, the environment and the OS version replaced, never changed in
\* place; one token holds a ":".
ReplaceTokens == {"--color=256", "--", "--color=256:--"}
ReplaceEnv == {<<"FORCE_COLOR", "1">>}
ReplaceReleases == {"10.0.14931", "10.0.10585"}

InitReplace ==
    Loaded({EmptyMap}, {"win32"}, ReplaceReleases, {[fd \in {1, 2} |-> TRUE]})

NextReplace ==
    \/ CreateSupportsColor({TTY, NotTTY}, {NoOptions})
    \/ ClearCache
    \/ ReplaceArgv(ArgvOf(ReplaceTokens))
    \/ SetEnv(ReplaceEnv)
    \/ DeleteEnv
    \/ SetOsRelease(ReplaceReleases)

SpecReplace == InitReplace /\ [][NextReplace]_vars

\* The environment, with argv empty.
ForceColors == {"true", "false", "", "0", "1", "2", "3", "4", "10", "-1", "abc"}
EnvSettings ==
    {<<"FORCE_COLOR", v>> : v \in ForceColors}
        \cup {<<"TERM", v>> : v \in {"dumb", "xterm", "xterm-256color"}}
        \cup {<<"COLORTERM", "truecolor">>, <<"CI", "true">>, <<"GITHUB_ACTIONS", "true">>}

InitEnv == Loaded({EmptyMap}, {"linux"}, {"10.0.14931"}, {[fd \in {1, 2} |-> TRUE]})

NextEnv ==
    \/ CreateSupportsColor(Streams, Options)
    \/ ClearCache
    \/ SetEnv(EnvSettings)
    \/ DeleteEnv

SpecEnv == InitEnv /\ [][NextEnv]_vars

\* sniffFlags: the flags of argv against the forcing environment.
SniffTokens == {"--color", "--no-color"}
SniffEnv == {<<"FORCE_COLOR", "1">>, <<"TF_BUILD", "True">>, <<"AGENT_NAME", "a">>}

InitSniff == Loaded({EmptyMap}, {"linux"}, {"10.0.14931"}, {[fd \in {1, 2} |-> TRUE]})

NextSniff ==
    \/ CreateSupportsColor({NotTTY}, Options)
    \/ ClearCache
    \/ ReplaceArgv({<<>>})
    \/ PushArgv(SniffTokens)
    \/ PopArgv
    \/ SetEnv(SniffEnv)
    \/ DeleteEnv

SpecSniff == InitSniff /\ [][NextSniff]_vars

-----------------------------------------------------------------------------
(* What the claims are stated about *)

\* What the next createSupportsColor(stream, options) returns.
Result(stream, options) == createSupportsColor(stream, options, State).ret

\* What it returns with empty caches.
Fresh(stream, options) == createSupportsColor(stream, options, clearCacheOf(State)).ret

\* token is in a before any "--".
Before(a, token) ==
    \E i \in 1..Len(a) : a[i] = token /\ \A j \in 1..(i - 1) : a[j] # "--"

DisableTokens == {"--no-color", "--no-colors", "--color=false", "--color=never"}
EnableTokens == {"--color", "--colors", "--color=true", "--color=always"}
FullTokens == {"--color=16m", "--color=full", "--color=truecolor"}
ColorTokens == DisableTokens \cup EnableTokens \cup FullTokens \cup {"--color=256"}

NoColorFlags(a) == \A i \in 1..Len(a) : a[i] \notin ColorTokens

Azure == "TF_BUILD" \in DOMAIN env /\ "AGENT_NAME" \in DOMAIN env

Supported(level) ==
    [level |-> level, hasBasic |-> TRUE, has256 |-> level >= 2, has16m |-> level >= 3]

\* The last operation was createSupportsColor(stream, options).
Called(stream, options) ==
    /\ ret.op = "createSupportsColor"
    /\ ret.stream = stream
    /\ ret.options = options

-----------------------------------------------------------------------------
\* C1: in every state reached by createSupportsColor calls, clearCache calls
\* and replacements of argv, env and the OS version, createSupportsColor
\* returns for every stream and options what it returns with empty caches.
C1_CachesNeverChangeTheAnswer ==
    \A stream \in Streams, options \in Options :
        Result(stream, options) = Fresh(stream, options)

-----------------------------------------------------------------------------
\* The forced level of the flags of a, as C2 states it.
ClaimedFlagForce(a) ==
    IF \E t \in DisableTokens : Before(a, t) THEN 0
    ELSE IF \E t \in EnableTokens : Before(a, t) THEN 1
    ELSE undefined

\* C2: however argv was changed (replaced, or changed in place), the next
\* getFlagForceColor() returns the forced level of the tokens argv holds
\* now: 0 with a disable flag, else 1 with an enable flag, else undefined.
C2_ArgvChangeInvalidates == getFlagForceColor(State).ret = ClaimedFlagForce(argv)

-----------------------------------------------------------------------------
\* The effective force level is 0, as C3 states it.
ClaimedDisabled(options) ==
    \/ EnvIs(env, "FORCE_COLOR", "0")
    \/ EnvIs(env, "FORCE_COLOR", "false")
    \/ /\ sniffFlagsOf(options)
       /\ envForceColor(env) = undefined
       /\ \E t \in DisableTokens : Before(argv, t)

\* C3: whenever FORCE_COLOR is "0" or "false", or flags are sniffed,
\* FORCE_COLOR forces nothing and a disable flag is in argv before any "--",
\* createSupportsColor returns false for every stream.
C3_DisableWins ==
    \A stream \in Streams, options \in Options :
        ClaimedDisabled(options) => Result(stream, options) = false

-----------------------------------------------------------------------------
\* C4: for a stream that is no terminal, with FORCE_COLOR=2, no colour flag
\* in argv, not on Windows and without CI, TEAMCITY_VERSION and the Azure
\* variables, createSupportsColor returns level 2 whatever TERM, COLORTERM,
\* TERM_PROGRAM and TERM_PROGRAM_VERSION are.
C4_ForceOverridesDetection ==
    ( /\ EnvIs(env, "FORCE_COLOR", "2")
      /\ NoColorFlags(argv)
      /\ platform # "win32"
      /\ "CI" \notin DOMAIN env
      /\ "TEAMCITY_VERSION" \notin DOMAIN env
      /\ ~Azure )
    => \A options \in Options : Result(NotTTY, options) = Supported(2)

-----------------------------------------------------------------------------
\* C5: with CI and GITHUB_ACTIONS in env, no FORCE_COLOR, no colour flag in
\* argv, no Azure variables, TERM not "dumb" and not on Windows,
\* createSupportsColor returns level 3 for a stream that is a terminal and
\* for one that is not.
C5_FullColorCI ==
    ( /\ "CI" \in DOMAIN env
      /\ "GITHUB_ACTIONS" \in DOMAIN env
      /\ "FORCE_COLOR" \notin DOMAIN env
      /\ NoColorFlags(argv)
      /\ ~Azure
      /\ ~EnvIs(env, "TERM", "dumb")
      /\ platform # "win32" )
    => \A stream \in {TTY, NotTTY} : Result(stream, NoOptions) = Supported(3)

-----------------------------------------------------------------------------
\* The token lists C6 compares the argv of a state with.
OtherArgv == {<<>>, <<"--color=16m", "--no-color">>}

\* C6: with sniffFlags false the result does not depend on argv: in every
\* state, for every stream, createSupportsColor(stream, {sniffFlags: false})
\* returns what it returns, from the same caches, when argv holds another
\* token list (in the same or in a new array object); and with "--color" in
\* argv, no FORCE_COLOR, no Azure variables and a stream that is no
\* terminal it returns false.
C6_SniffFlagsOffIgnoresArgv ==
    /\ \A stream \in Streams, a \in OtherArgv, ref \in {argvRef, NewRef} :
            Result(stream, NoSniff)
                = createSupportsColor(stream, NoSniff,
                                      [State EXCEPT !.argv = a, !.argvRef = ref]).ret
    /\ ( /\ \E i \in 1..Len(argv) : argv[i] = "--color"
         /\ "FORCE_COLOR" \notin DOMAIN env
         /\ ~Azure )
       => Result(NotTTY, NoSniff) = false

\* createSupportsColor(NotTTY, {sniffFlags: false}) has returned false
\* with "--color" in argv, which alone would have forced level 1.
C6_Witness ==
    /\ Called(NotTTY, NoSniff)
    /\ ret.value = false
    /\ argv = <<"--color">>
    /\ env = EmptyMap
    /\ Result(NotTTY, NoOptions) = Supported(1)

-----------------------------------------------------------------------------
\* The forced level of FORCE_COLOR, as C7 states it: a parsed value other
\* than 0, 1, 2, 3 forces nothing.
ClaimedEnvForce(e) ==
    IF "FORCE_COLOR" \notin DOMAIN e THEN undefined
    ELSE IF e["FORCE_COLOR"] = "true" THEN 1
    ELSE IF e["FORCE_COLOR"] = "false" THEN 0
    ELSE IF e["FORCE_COLOR"] = "" THEN 1
    ELSE LET parsed == ParseInt(e["FORCE_COLOR"])
         IN  IF parsed # NaN /\ parsed[1] \in {0, 1, 2, 3} THEN parsed[1] ELSE undefined

\* C7 as stated: envForceColor() is ClaimedEnvForce, so "4" and "10" force
\* nothing.
C7_AsStated == envForceColor(env) = ClaimedEnvForce(env)

\* The forced level of FORCE_COLOR with a parsed value above 3 capped at 3.
AmendedEnvForce(e) ==
    IF "FORCE_COLOR" \notin DOMAIN e THEN undefined
    ELSE IF e["FORCE_COLOR"] = "true" THEN 1
    ELSE IF e["FORCE_COLOR"] = "false" THEN 0
    ELSE IF e["FORCE_COLOR"] = "" THEN 1
    ELSE LET parsed == ParseInt(e["FORCE_COLOR"])
         IN  IF parsed = NaN \/ parsed[1] < 0 THEN undefined
             ELSE IF parsed[1] > 3 THEN 3
             ELSE parsed[1]

\* C7, amended: absent forces nothing, "true" 1, "false" 0, "" 1; any other
\* value is parsed as a base-10 integer, and a parsed value of 0, 1, 2 or 3
\* forces that level, one above 3 ("4", "10") forces 3, and a negative one
\* or none (not a number) forces nothing.
C7_EnvForceColor ==
    /\ envForceColor(env) = AmendedEnvForce(env)
    /\ \A v \in {"4", "10"} : EnvIs(env, "FORCE_COLOR", v) => envForceColor(env) = 3
    /\ \A v \in {"-1", "abc"} : EnvIs(env, "FORCE_COLOR", v) => envForceColor(env) = undefined

\* createSupportsColor has returned level 3 for a stream that is no
\* terminal with FORCE_COLOR=10 alone in env.
C7_Witness ==
    /\ Called(NotTTY, NoOptions)
    /\ env = [k \in {"FORCE_COLOR"} |-> "10"]
    /\ ret.value = Supported(3)

-----------------------------------------------------------------------------
\* C8: nothing is computed before the first read of supportsColor.stdout
\* (stderr); the first read computes createSupportsColor for fd 1 (2) from
\* the inputs of that moment; a value once computed, false included, never
\* changes, whatever happens in between, and is what every read returns;
\* a read of one of the two leaves the other alone.
C8_DefaultsMemoized ==
    /\ [](ret.op = "load" => stdoutCache = null /\ stderrCache = null)
    /\ [][/\ stdoutCache # null => stdoutCache' = stdoutCache
          /\ stderrCache # null => stderrCache' = stderrCache
          /\ stdoutCache' # stdoutCache
                => /\ ret'.op = "stdout"
                   /\ stdoutCache' = Result([isTTY |-> isatty[1]], NoOptions)
          /\ stderrCache' # stderrCache
                => /\ ret'.op = "stderr"
                   /\ stderrCache' = Result([isTTY |-> isatty[2]], NoOptions)
          /\ ret'.op = "stdout" => ret'.value = stdoutCache' /\ stdoutCache' # null
          /\ ret'.op = "stderr" => ret'.value = stderrCache' /\ stderrCache' # null
         ]_vars

\* A read of supportsColor.stdout has returned the false computed by the
\* first read, in a state where a call computes level 3; stderr is still
\* to be read.
C8_Witness ==
    /\ ret.op = "stdout"
    /\ ret.value = false
    /\ Result([isTTY |-> isatty[1]], NoOptions) = Supported(3)
    /\ stderrCache = null

-----------------------------------------------------------------------------
\* The level of an OS version, as C9 states it.
ClaimedWindowsLevel(release) ==
    LET parts == Split(release)
        major == NumberAt(parts, 0)
        build == NumberAt(parts, 2)
    IN  IF GreaterOrEqual(major, 10) /\ GreaterOrEqual(build, 14931) THEN 3
        ELSE IF GreaterOrEqual(major, 10) /\ GreaterOrEqual(build, 10586) THEN 2
        ELSE 1

\* createSupportsColor(stream, options) gets as far as the platform step.
ReachesPlatformStep(stream, options) ==
    \E flag \in {getFlagForceColor(State)} :
        LET sniffFlags == sniffFlagsOf(options)
            forceColor == forceColorOf(sniffFlags, envForceColor(env), flag.ret)
        IN  /\ forceColor # 0
            /\ checkFlagColorLevel(sniffFlags, flag.s).ret = 0
            /\ ~Azure
            /\ (stream = noStream \/ stream.isTTY \/ forceColor # undefined)
            /\ ~EnvIs(env, "TERM", "dumb")

\* C9: on win32, when resolution gets to the platform step, the level is
\* that of the OS version alone: 3 from 10.0.14931, 2 from 10.0.10586, else 1.
C9_WindowsLevel ==
    \A stream \in Streams, options \in Options :
        (platform = "win32" /\ ReachesPlatformStep(stream, options))
            => Result(stream, options) = Supported(ClaimedWindowsLevel(osRelease))

-----------------------------------------------------------------------------
\* a without its tokens equal to token.
Without(a, token) == SelectSeq(a, LAMBDA t : t # token)

\* C10: with flags sniffed, a terminal stream and no force-disable, a
\* "--color=256" before any "--" gives level 2, and "--color=16m",
\* "--color=full" or "--color=truecolor" there gives level 3; a flag whose
\* only occurrences follow a "--" is reported absent by hasFlag, and
\* createSupportsColor returns what it returns for argv without that token.
C10_FlagBeforeTerminator ==
    LET disabled == \/ envForceColor(env) = 0
                    \/ /\ envForceColor(env) = undefined
                       /\ \E t \in DisableTokens : Before(argv, t)
        full == \E t \in FullTokens : Before(argv, t)
    IN  /\ (~disabled /\ full) => Result(TTY, NoOptions) = Supported(3)
        /\ (~disabled /\ ~full /\ Before(argv, "--color=256"))
                => Result(TTY, NoOptions) = Supported(2)
        /\ \A flag \in Flags :
                ( /\ \E i \in 1..Len(argv) : argv[i] = "--" \o flag
                  /\ ~Before(argv, "--" \o flag) )
                => /\ ~hasFlag(flag, State).ret
                   /\ \A stream \in Streams :
                        Result(stream, NoOptions)
                            = createSupportsColor(
                                stream, NoOptions,
                                [State EXCEPT !.argv = Without(argv, "--" \o flag)]).ret

=============================================================================
